---- MODULE Spec2Model ----
(***************************************************************************)
(* Model of the OCR service (ocr-service/app.py): the POST /ocr handler    *)
(* extract_text, the two extraction pipelines extract_text_from_image and  *)
(* extract_text_from_pdf, and the field extraction engine                  *)
(* extract_structured_fields.                                              *)
(*                                                                         *)
(* Texts are sequences of one-character strings, so that strip(), split(), *)
(* upper(), join() and the regular expressions are computed on characters. *)
(***************************************************************************)
EXTENDS Integers, Sequences, FiniteSets, TLC

VARIABLES
    pc,                  \* position of the request inside extract_text
    file,                \* the UploadFile: declared size, content type, payload length, pages
    fs,                  \* temporary files existing on disk
    temp_path,           \* local temp_path of extract_text (None until line 381)
    response,            \* HTTP status (0 while pending) and response body
    doc,                 \* state of the fitz document: "none", "open", "closed"
    page_num,            \* loop variable of extract_text_from_pdf
    text_parts,          \* local text_parts of extract_text_from_pdf
    total_words,         \* local total_words of extract_text_from_pdf
    used_ocr,            \* local used_ocr of extract_text_from_pdf
    pending,             \* an exception in flight inside extract_text_from_pdf
    extraction,          \* (text, confidence, metadata) returned by a pipeline
    digital,             \* history: digital text each page yielded, in page order
    ocr,                 \* history: OCR text each rasterized page yielded
    rasterized,          \* history: pages rasterized, in order
    trace,               \* history: temp storage created / engine invoked
    text,                \* input of extract_structured_fields
    fields               \* output of extract_structured_fields

vars == <<pc, file, fs, temp_path, response, doc, page_num, text_parts, total_words,
          used_ocr, pending, extraction, digital, ocr, rasterized, trace, text, fields>>

None == <<>>

(***************************************************************************)
(* Bounds of the model.                                                    *)
(***************************************************************************)
MaxPages == 6

\* pages of one document that yield a non-empty text (digital text, or OCR text)
MaxWritten == 2

(***************************************************************************)
(* Characters and Python string operations.                                *)
(***************************************************************************)
IsSpace(c) == c \in {" ", "\n", "\t", "\f"}

IsDigit(c) == c \in {"0", "1", "2", "3", "4", "5", "6", "7", "8", "9"}

LowerLetters == <<"a","b","c","d","e","f","g","h","i","j","k","l","m",
                  "n","o","p","q","r","s","t","u","v","w","x","y","z">>

UpperLetters == <<"A","B","C","D","E","F","G","H","I","J","K","L","M",
                  "N","O","P","Q","R","S","T","U","V","W","X","Y","Z">>

IsLower(c) == \E i \in 1..26 : LowerLetters[i] = c

IsUpper(c) == \E i \in 1..26 : UpperLetters[i] = c

\* \w of the re module on ASCII text
IsWord(c) == IsLower(c) \/ IsUpper(c) \/ IsDigit(c) \/ c = "_"

UpperChar(c) == IF IsLower(c)
                THEN UpperLetters[CHOOSE i \in 1..26 : LowerLetters[i] = c]
                ELSE c

\* str.upper()
Upper(s) == [i \in 1..Len(s) |-> UpperChar(s[i])]

\* str.strip(): leading and trailing whitespace removed
Strip(s) ==
    LET idx == {i \in 1..Len(s) : ~IsSpace(s[i])}
    IN  IF idx = {} THEN <<>>
        ELSE LET lo == CHOOSE i \in idx : \A j \in idx : i <= j
                 hi == CHOOSE i \in idx : \A j \in idx : j <= i
             IN  SubSeq(s, lo, hi)

\* len(s.split()): number of maximal runs of non-whitespace characters
WordCount(s) ==
    Cardinality({i \in 1..Len(s) : ~IsSpace(s[i]) /\ (i = 1 \/ IsSpace(s[i-1]))})

\* sep.join(parts)
RECURSIVE Join(_, _)
Join(parts, sep) ==
    IF parts = <<>> THEN <<>>
    ELSE IF Len(parts) = 1 THEN parts[1]
    ELSE parts[1] \o sep \o Join(Tail(parts), sep)

\* s.split('\n')
RECURSIVE SplitLines(_)
SplitLines(s) ==
    LET nl == {i \in 1..Len(s) : s[i] = "\n"}
    IN  IF nl = {} THEN <<s>>
        ELSE LET k == CHOOSE i \in nl : \A j \in nl : i <= j
             IN  <<SubSeq(s, 1, k - 1)>> \o SplitLines(SubSeq(s, k + 1, Len(s)))

RECURSIVE NonBlankStripped(_)
NonBlankStripped(ls) ==
    IF ls = <<>> THEN <<>>
    ELSE (IF Strip(ls[1]) # <<>> THEN <<Strip(ls[1])>> ELSE <<>>)
         \o NonBlankStripped(Tail(ls))

\* [line.strip() for line in text.split('\n') if line.strip()]
Lines(s) == NonBlankStripped(SplitLines(s))

\* lines[:10]
FirstLines(ls) == SubSeq(ls, 1, IF Len(ls) < 10 THEN Len(ls) ELSE 10)

PageSeparator == <<"\n", "\n">>

(***************************************************************************)
(* Optional values: None is the empty sequence, Some(v) a one-element one.  *)
(***************************************************************************)
Some(v) == <<v>>

(***************************************************************************)
(* Regular expressions of the re module.  A pattern is a sequence of        *)
(* elements; Match tries the alternatives of each element in the order the  *)
(* backtracking matcher of re tries them (greedy: longest first, lazy:      *)
(* shortest first), so the first complete match is the one re reports.      *)
(* A match state is <<position, start of group 1, end of group 1>>.         *)
(***************************************************************************)
Fail == <<>>

\* kw matches s at position i
StartsWithAt(s, i, kw) ==
    /\ i + Len(kw) - 1 <= Len(s)
    /\ SubSeq(s, i, i + Len(kw) - 1) = kw

\* character classes
InClass(class, c) ==
    CASE class = "\\d"     -> IsDigit(c)
      [] class = "\\w"     -> IsWord(c)
      [] class = "\\s"     -> IsSpace(c)
      [] class = "[:\\s]"  -> c = ":" \/ IsSpace(c)
      [] class = "[:\\s#]" -> c = ":" \/ c = "#" \/ IsSpace(c)
      [] class = "[-/]"    -> c = "-" \/ c = "/"
      [] class = "."       -> c # "\n"
      [] class = "\\$"     -> c = "$"
      [] class = ","       -> c = ","

\* pattern elements; hi = -1 stands for no upper limit
Lit(v)            == [k |-> "lit",   v |-> v,     lo |-> 1,  hi |-> 1,  lazy |-> FALSE]
Rep(class, lo, hi) == [k |-> "rep",  v |-> class, lo |-> lo, hi |-> hi, lazy |-> FALSE]
Lazy(class, lo, hi) == [k |-> "rep", v |-> class, lo |-> lo, hi |-> hi, lazy |-> TRUE]
Alt(vs)           == [k |-> "alt",   v |-> vs,    lo |-> 1,  hi |-> 1,  lazy |-> FALSE]
Group(sub, lo, hi) == [k |-> "group", v |-> sub,  lo |-> lo, hi |-> hi, lazy |-> FALSE]
Open              == [k |-> "open",  v |-> <<>>,  lo |-> 1,  hi |-> 1,  lazy |-> FALSE]
Close             == [k |-> "close", v |-> <<>>,  lo |-> 1,  hi |-> 1,  lazy |-> FALSE]
Bol               == [k |-> "bol",   v |-> <<>>,  lo |-> 1,  hi |-> 1,  lazy |-> FALSE]

\* the element after one more repetition
Once(h) == [h EXCEPT !.lo = IF h.lo > 0 THEN h.lo - 1 ELSE 0,
                     !.hi = IF h.hi > 0 THEN h.hi - 1 ELSE h.hi]

\* the first of two attempts that succeeds
OrElse(first, second) == IF first # Fail THEN first ELSE second

\* pattern p matched at state st: the final state, or Fail
RECURSIVE Match(_, _, _)
Match(p, s, st) ==
    IF p = <<>> THEN st
    ELSE LET h == Head(p)
             r == Tail(p)
             i == st[1]
         IN CASE h.k = "lit" ->
                   IF StartsWithAt(s, i, h.v)
                   THEN Match(r, s, <<i + Len(h.v), st[2], st[3]>>) ELSE Fail
              [] h.k = "open"  -> Match(r, s, <<i, i, st[3]>>)
              [] h.k = "close" -> Match(r, s, <<i, st[2], i>>)
              [] h.k = "bol"   -> IF i = 1 THEN Match(r, s, st) ELSE Fail
              [] h.k = "alt"   ->
                   IF h.v = <<>> THEN Fail
                   ELSE OrElse(Match(<<Lit(Head(h.v))>> \o r, s, st),
                               Match(<<Alt(Tail(h.v))>> \o r, s, st))
              [] h.k = "rep"   ->
                   LET more == IF h.hi # 0 /\ i <= Len(s) /\ InClass(h.v, s[i])
                               THEN Match(<<Once(h)>> \o r, s, <<i + 1, st[2], st[3]>>)
                               ELSE Fail
                       stop == IF h.lo = 0 THEN Match(r, s, st) ELSE Fail
                   IN  IF h.lazy THEN OrElse(stop, more) ELSE OrElse(more, stop)
              [] h.k = "group" ->
                   OrElse(IF h.hi # 0 THEN Match(h.v \o <<Once(h)>> \o r, s, st) ELSE Fail,
                          IF h.lo = 0 THEN Match(r, s, st) ELSE Fail)

\* re.search(pattern, s): the match at the leftmost position that has one
RECURSIVE SearchFrom(_, _, _)
SearchFrom(p, s, i) ==
    IF i > Len(s) + 1 THEN Fail
    ELSE OrElse(Match(p, s, <<i, 0, 0>>), SearchFrom(p, s, i + 1))

Search(p, s) == SearchFrom(p, s, 1)

\* match.group(1)
Group1(s, m) == SubSeq(s, m[2], m[3] - 1)

TOTAL     == <<"T","O","T","A","L">>
AMOUNT    == <<"A","M","O","U","N","T">>
SUM       == <<"S","U","M">>
BALANCE   == <<"B","A","L","A","N","C","E">>
USD       == <<"U","S","D">>
GRAND     == <<"G","R","A","N","D">>
SUBTOTAL  == <<"S","U","B","T","O","T","A","L">>

\* (\d+(?:,\d{3})*(?:\.\d{2})?)
AmountGroup ==
    << Open, Rep("\\d", 1, -1),
       Group(<<Lit(<<",">>), Rep("\\d", 3, 3)>>, 0, -1),
       Group(<<Lit(<<".">>), Rep("\\d", 2, 2)>>, 0, 1), Close >>

\* KW[:\s]*\$?(\d+(?:,\d{3})*(?:\.\d{2})?)
KeywordAmount(kw) == <<Lit(kw), Rep("[:\\s]", 0, -1), Rep("\\$", 0, 1)>> \o AmountGroup

\* lines 110-119
total_patterns ==
    << KeywordAmount(TOTAL),
       KeywordAmount(AMOUNT),
       KeywordAmount(SUM),
       KeywordAmount(BALANCE),
       <<Lit(USD), Rep("\\s", 0, -1)>> \o AmountGroup,
       <<Rep("\\$", 0, 1)>> \o AmountGroup \o <<Rep("\\s", 0, -1), Lit(USD)>>,
       <<Lit(GRAND), Rep("\\s", 0, -1)>> \o KeywordAmount(TOTAL),
       KeywordAmount(SUBTOTAL) >>

RECURSIVE DigitsValue(_)
DigitsValue(ds) ==
    IF ds = <<>> THEN 0
    ELSE 10 * DigitsValue(SubSeq(ds, 1, Len(ds) - 1))
         + (CHOOSE v \in 0..9 : ToString(v) = ds[Len(ds)])

\* amount_str.replace(',', '')
RemoveCommas(a) == SelectSeq(a, LAMBDA c : c # ",")

\* float(amount_str), in hundredths
ParseFloat(a) ==
    IF Len(a) >= 3 /\ a[Len(a) - 2] = "."
    THEN 100 * DigitsValue(SubSeq(a, 1, Len(a) - 3))
         + DigitsValue(SubSeq(a, Len(a) - 1, Len(a)))
    ELSE 100 * DigitsValue(a)

\* lines 121-130: the first pattern that matches gives the total
RECURSIVE ExtractTotal(_, _)
ExtractTotal(s, k) ==
    IF k > Len(total_patterns) THEN None
    ELSE LET m == Search(total_patterns[k], s)
         IN  IF m # Fail THEN Some(ParseFloat(RemoveCommas(Group1(s, m))))
             ELSE ExtractTotal(s, k + 1)

MONTHS ==
    << <<"J","A","N">>, <<"F","E","B">>, <<"M","A","R">>, <<"A","P","R">>,
       <<"M","A","Y">>, <<"J","U","N">>, <<"J","U","L">>, <<"A","U","G">>,
       <<"S","E","P">>, <<"O","C","T">>, <<"N","O","V">>, <<"D","E","C">> >>

\* lines 133-138
date_patterns ==
    << <<Open, Rep("\\d", 1, 2), Rep("[-/]", 1, 1), Rep("\\d", 1, 2), Rep("[-/]", 1, 1),
         Rep("\\d", 2, 4), Close>>,
       <<Open, Rep("\\d", 4, 4), Rep("[-/]", 1, 1), Rep("\\d", 1, 2), Rep("[-/]", 1, 1),
         Rep("\\d", 1, 2), Close>>,
       <<Open, Rep("\\d", 1, 2), Rep("\\s", 1, -1), Alt(MONTHS), Rep("\\s", 1, -1),
         Rep("\\d", 2, 4), Close>>,
       <<Open, Alt(MONTHS), Rep("\\s", 1, -1), Rep("\\d", 1, 2), Rep(",", 0, 1),
         Rep("\\s", 1, -1), Rep("\\d", 2, 4), Close>> >>

\* lines 140-144
RECURSIVE ExtractDate(_, _)
ExtractDate(s, k) ==
    IF k > Len(date_patterns) THEN None
    ELSE LET m == Search(date_patterns[k], s)
         IN  IF m # Fail THEN Some(Group1(s, m)) ELSE ExtractDate(s, k + 1)

INVOICE   == <<"I","N","V","O","I","C","E">>
BILL      == <<"B","I","L","L">>
RECEIPT   == <<"R","E","C","E","I","P","T">>
ORDER     == <<"O","R","D","E","R">>
REF       == <<"R","E","F">>
ERENCE    == <<"E","R","E","N","C","E">>
ACC       == <<"A","C","C">>
OUNT      == <<"O","U","N","T">>

\* [:\s#]*(\w+[-/]?\w*)
NumberGroup ==
    << Rep("[:\\s#]", 0, -1), Open, Rep("\\w", 1, -1), Rep("[-/]", 0, 1),
       Rep("\\w", 0, -1), Close >>

\* lines 147-154
invoice_patterns ==
    << <<Lit(INVOICE)>> \o NumberGroup,
       <<Lit(BILL)>> \o NumberGroup,
       <<Lit(RECEIPT)>> \o NumberGroup,
       <<Lit(ORDER)>> \o NumberGroup,
       <<Lit(REF), Group(<<Lit(ERENCE)>>, 0, 1)>> \o NumberGroup,
       <<Lit(ACC), Group(<<Lit(OUNT)>>, 0, 1)>> \o NumberGroup >>

\* lines 156-160
RECURSIVE ExtractInvoice(_, _)
ExtractInvoice(s, k) ==
    IF k > Len(invoice_patterns) THEN None
    ELSE LET m == Search(invoice_patterns[k], s)
         IN  IF m # Fail /\ Len(Group1(s, m)) > 2 THEN Some(Group1(s, m))
             ELSE ExtractInvoice(s, k + 1)

COMPANY_SUFFIXES ==
    << <<"I","N","C">>, <<"L","L","C">>, <<"C","O","R","P">>,
       <<"C","O","R","P","O","R","A","T","I","O","N">>, <<"C","O">>,
       <<"C","O","M","P","A","N","Y">>, <<"L","T","D">>,
       <<"L","I","M","I","T","E","D">> >>

FROM     == <<"F","R","O","M",":">>
VENDOR   == <<"V","E","N","D","O","R",":">>
SUPPLIER == <<"S","U","P","P","L","I","E","R",":">>
MERCHANT == <<"M","E","R","C","H","A","N","T",":">>

\* LABEL:\s*(.+)
Labelled(kw) == <<Lit(kw), Rep("\\s", 0, -1), Open, Rep(".", 1, -1), Close>>

\* lines 163-169
vendor_patterns ==
    << <<Bol, Open, Lazy(".", 1, -1), Close, Rep("\\s", 1, -1), Alt(COMPANY_SUFFIXES)>>,
       Labelled(FROM),
       Labelled(VENDOR),
       Labelled(SUPPLIER),
       Labelled(MERCHANT) >>

\* lines 174-178: the patterns tried on one line
RECURSIVE VendorOfLine(_, _)
VendorOfLine(line_upper, k) ==
    IF k > Len(vendor_patterns) THEN None
    ELSE LET m == Search(vendor_patterns[k], line_upper)
         IN  IF m # Fail /\ Len(Strip(Group1(line_upper, m))) > 2
             THEN Some(Strip(Group1(line_upper, m)))
             ELSE VendorOfLine(line_upper, k + 1)

\* lines 172-180: the loop over lines[:5]
RECURSIVE ExtractVendor(_, _)
ExtractVendor(lines, n) ==
    IF n > Len(lines) \/ n > 5 THEN None
    ELSE LET v == VendorOfLine(Upper(lines[n]), 1)
         IN  IF v # None THEN v ELSE ExtractVendor(lines, n + 1)

STATEMENT == <<"S","T","A","T","E","M","E","N","T">>

\* any(keyword in line for keyword in ['INVOICE', 'BILL', 'RECEIPT', 'STATEMENT'])
HasDocumentType(s) ==
    \E kw \in {INVOICE, BILL, RECEIPT, STATEMENT} :
        \E i \in 1..Len(s) : StartsWithAt(s, i, kw)

\* lines 183-191
ExtractTitle(lines) ==
    IF lines = <<>> THEN None
    ELSE IF HasDocumentType(Upper(lines[1])) THEN Some(Strip(lines[1]))
    ELSE IF Len(lines) > 1 /\ HasDocumentType(Upper(lines[2])) THEN Some(Strip(lines[2]))
    ELSE None

\* lines 103-193
extract_structured_fields(t) ==
    [ total          |-> ExtractTotal(Upper(t), 1),
      date           |-> ExtractDate(Upper(t), 1),
      invoice_number |-> ExtractInvoice(Upper(t), 1),
      vendor         |-> ExtractVendor(Lines(t), 1),
      title          |-> ExtractTitle(Lines(t)) ]

(***************************************************************************)
(* Configuration (lines 28-33).                                            *)
(***************************************************************************)
MAX_FILE_SIZE == 10 * 1024 * 1024

ALLOWED_FILE_TYPES ==
    {"image/jpeg", "image/jpg", "image/png", "image/bmp", "image/tiff", "application/pdf"}

(***************************************************************************)
(* The uploads a request can carry.  size = 0 stands for an absent size    *)
(* hint (file.size is None or 0: both are falsy at line 351).              *)
(***************************************************************************)
ContentTypes == ALLOWED_FILE_TYPES \cup {"text/plain"}

DeclaredSizes == {0, MAX_FILE_SIZE, MAX_FILE_SIZE + 1}

ActualSizes == {MAX_FILE_SIZE, MAX_FILE_SIZE + 1}

Uploads ==
    { [size |-> d, content_type |-> c, length |-> a, pages |-> n] :
        d \in DeclaredSizes, c \in ContentTypes, a \in ActualSizes, n \in 0..MaxPages }

\* what page.get_text() can give for a page
PageTexts == { <<>>, <<" ">>, <<"a">>, <<"b", " ", "c">> }

\* what pytesseract.image_to_string() can give for an image
OcrTexts == { <<>>, <<"\f">>, <<"d", "\n", "e">> }

\* what image_to_data()['conf'] can give
OcrConfs == { <<>>, <<-1, 0>>, <<90, -1, 85>> }

\* tempfile.NamedTemporaryFile(delete=False, ...).name
UploadPath == <<"tmp", 0>>

\* pdf_path.parent / f"temp_page_{page_num}.png"
img_path(n) == <<"temp_page", n>>

Pending == [status |-> 0, detail |-> "", body |-> None]

\* raise HTTPException(status_code, detail)
HTTPException(code, detail) == [status |-> code, detail |-> detail, body |-> None]

\* processing_metadata.get(key)
Get(md, key) == IF key \in DOMAIN md THEN Some(md[key]) ELSE None

Min(a, b) == IF a < b THEN a ELSE b

\* number of non-empty texts among those a history holds
Written(texts) == Cardinality({i \in 1..Len(texts) : texts[i] # <<>>})

RECURSIVE Sum(_)
Sum(q) == IF q = <<>> THEN 0 ELSE q[1] + Sum(Tail(q))

(***************************************************************************)
(* extract_text_from_image (lines 215-241), given what the engine returns.  *)
(* Confidence is the fraction <<numerator, denominator>>.                   *)
(***************************************************************************)
extract_text_from_image(t, conf, size) ==
    LET confidences == SelectSeq(conf, LAMBDA c : c > 0)
        lines       == Lines(t)
    IN  [ text       |-> t,
          confidence |-> IF confidences # <<>>
                         THEN <<Sum(confidences), Len(confidences)>> ELSE <<0, 1>>,
          metadata   |-> [ total_lines    |-> Len(lines),
                           file_size      |-> size,
                           word_count     |-> WordCount(t),
                           detected_lines |-> FirstLines(lines) ] ]

(***************************************************************************)
(* extract_text_from_pdf, piece by piece.                                   *)
(***************************************************************************)
\* variant of HasText: the text is tested without strip()
HasText_Unstripped(t) == t # <<>>

\* page_text.strip() / full_text.strip() as a condition
HasText(t) == Strip(t) # <<>>

\* variant of OcrPageLimit: range(len(doc)), no limit of five pages
OcrPageLimit_Unlimited(n) == n

\* range(min(len(doc), 5)) (line 280)
OcrPageLimit(n) == Min(n, 5)

\* line 301, in tenths
Confidence(u) == IF u THEN <<8, 10>> ELSE <<10, 10>>

\* variant of PdfMetadata: total_pages counts the pages that were processed
PdfMetadata_Processed(full_text, n, words, u, size) ==
    [ total_pages     |-> IF u THEN Min(n, 5) ELSE n,
      total_words     |-> words,
      file_size       |-> size,
      has_text        |-> Strip(full_text) # <<>>,
      extracted_lines |-> Len(Lines(full_text)),
      used_ocr        |-> u,
      detected_lines  |-> FirstLines(Lines(full_text)) ]

\* lines 303-312; n is what len(doc) gives
PdfMetadata(full_text, n, words, u, size) ==
    LET lines == Lines(full_text)
    IN  [ total_pages     |-> n,
          total_words     |-> words,
          file_size       |-> size,
          has_text        |-> HasText(full_text),
          extracted_lines |-> Len(lines),
          used_ocr        |-> u,
          detected_lines  |-> FirstLines(lines) ]

(***************************************************************************)
(* extract_text: the POST /ocr handler.                                     *)
(***************************************************************************)
\* line 351
DeclaredTooLarge(f) == f.size # 0 /\ f.size > MAX_FILE_SIZE

\* variant of TypeAllowed: text uploads are let through
TypeAllowed_Text(f) == f.content_type \in ALLOWED_FILE_TYPES \cup {"text/plain"}

\* line 358
TypeAllowed(f) == f.content_type \in ALLOWED_FILE_TYPES

\* variant of ActualTooLarge: the size hint is checked again, not len(content)
ActualTooLarge_Hint(f) == f.size # 0 /\ f.size > MAX_FILE_SIZE

\* line 375
ActualTooLarge(f) == f.length > MAX_FILE_SIZE

\* lines 396-406
OCRMetadata(f, e) ==
    [ content_type   |-> f.content_type,
      file_size      |-> f.length,
      total_pages    |-> Get(e.metadata, "total_pages"),
      confidence     |-> e.confidence,
      word_count     |-> Get(e.metadata, "word_count"),
      detected_lines |-> Get(e.metadata, "detected_lines") ]

\* lines 408-413
OCRResponse(f, e, parsed) ==
    [ status |-> 200, detail |-> "",
      body   |-> Some([ success        |-> TRUE,
                        extracted_text |-> e.text,
                        parsed_fields  |-> parsed,
                        metadata       |-> OCRMetadata(f, e) ]) ]

Init ==
    /\ pc = "validate_size"
    /\ file \in Uploads
    /\ (file.content_type # "application/pdf" => file.pages = 0)
    /\ fs = {}
    /\ temp_path = None
    /\ response = Pending
    /\ doc = "none"
    /\ page_num = 0
    /\ text_parts = <<>>
    /\ total_words = 0
    /\ used_ocr = FALSE
    /\ pending = FALSE
    /\ extraction = None
    /\ digital = <<>>
    /\ ocr = <<>>
    /\ rasterized = <<>>
    /\ trace = {}
    /\ text = <<>>
    /\ fields = None

pdf_locals == <<doc, page_num, text_parts, total_words, used_ocr, pending>>

history == <<digital, ocr, rasterized>>

\* lines 350-355
ValidateSize ==
    /\ pc = "validate_size"
    /\ IF DeclaredTooLarge(file)
       THEN /\ response' = HTTPException(413, "File size exceeds maximum allowed size")
            /\ pc' = "done"
       ELSE /\ pc' = "validate_type"
            /\ UNCHANGED response
    /\ UNCHANGED <<file, fs, temp_path, pdf_locals, extraction, history, trace, text, fields>>

\* lines 357-363
ValidateType ==
    /\ pc = "validate_type"
    /\ IF ~TypeAllowed(file)
       THEN /\ response' = HTTPException(400, "Unsupported file type")
            /\ pc' = "done"
       ELSE /\ pc' = "create_temp"
            /\ UNCHANGED response
    /\ UNCHANGED <<file, fs, temp_path, pdf_locals, extraction, history, trace, text, fields>>

\* lines 365-372: temp_path = None, the temporary file is created
CreateTemp ==
    /\ pc = "create_temp"
    /\ temp_path' = None
    /\ fs' = fs \cup {UploadPath}
    /\ trace' = trace \cup {"temp_file"}
    /\ pc' = "read"
    /\ UNCHANGED <<file, response, pdf_locals, extraction, history, text, fields>>

\* lines 373-381: the payload is read, its length checked, then written
ReadPayload ==
    /\ pc = "read"
    /\ IF ActualTooLarge(file)
       THEN /\ response' = HTTPException(413, "File size exceeds maximum allowed size")
            /\ pc' = "finally"
            /\ UNCHANGED temp_path
       ELSE /\ temp_path' = Some(UploadPath)
            /\ pc' = "dispatch"
            /\ UNCHANGED response
    /\ UNCHANGED <<file, fs, pdf_locals, extraction, history, trace, text, fields>>

\* lines 383-387
Dispatch ==
    /\ pc = "dispatch"
    /\ pc' = IF file.content_type = "application/pdf" THEN "pdf_open" ELSE "image"
    /\ UNCHANGED <<file, fs, temp_path, response, pdf_locals, extraction, history, trace,
                   text, fields>>

\* line 387: extract_text_from_image(temp_path); the engine fails (lines 243-244) or
\* gives a text and confidences
ImageOcr ==
    /\ pc = "image"
    /\ trace' = trace \cup {"engine"}
    /\ \/ /\ response' = HTTPException(500, "OCR processing failed")
          /\ pc' = "finally"
          /\ UNCHANGED extraction
       \/ \E t \in OcrTexts, c \in OcrConfs :
            /\ extraction' = Some(extract_text_from_image(t, c, file.length))
            /\ pc' = "respond"
            /\ UNCHANGED response
    /\ UNCHANGED <<file, fs, temp_path, pdf_locals, history, text, fields>>

\* len(doc): the page count while the document is open; on a closed document the
\* library either raises ValueError (None) or still answers the page count
len_doc(d, n) == IF d = "open" THEN {Some(n)} ELSE {None, Some(n)}

\* lines 257-263: fitz.open(pdf_path) opens the document or fails (lines 316-317)
PdfOpen ==
    /\ pc = "pdf_open"
    /\ trace' = trace \cup {"engine"}
    /\ \/ /\ response' = HTTPException(500, "PDF processing failed")
          /\ pc' = "finally"
          /\ UNCHANGED pdf_locals
       \/ /\ doc' = "open"
          /\ text_parts' = <<>>
          /\ total_words' = 0
          /\ used_ocr' = FALSE
          /\ page_num' = 0
          /\ pc' = "pdf_digital"
          /\ UNCHANGED <<response, pending>>
    /\ UNCHANGED <<file, fs, temp_path, extraction, history, text, fields>>

\* lines 266-271: one iteration of the digital text loop
PdfDigitalPage ==
    /\ pc = "pdf_digital"
    /\ \E n \in len_doc(doc, file.pages) : n # None /\ page_num < n[1]
    /\ \E page_text \in PageTexts :
         /\ page_text # <<>> => Written(digital) < MaxWritten
         /\ digital' = Append(digital, page_text)
         /\ IF HasText(page_text)
            THEN /\ text_parts' = Append(text_parts, page_text)
                 /\ total_words' = total_words + WordCount(page_text)
            ELSE UNCHANGED <<text_parts, total_words>>
    /\ page_num' = page_num + 1
    /\ UNCHANGED <<pc, file, fs, temp_path, response, doc, used_ocr, pending, extraction,
                   ocr, rasterized, trace, text, fields>>

\* lines 273-279: the loop is over; digital or OCR fallback
PdfClassify ==
    /\ pc = "pdf_digital"
    /\ \E n \in len_doc(doc, file.pages) : n # None /\ page_num = n[1]
    /\ IF ~HasText(Join(text_parts, PageSeparator))
       THEN /\ used_ocr' = TRUE
            /\ page_num' = 0
            /\ pc' = "pdf_rasterize"
       ELSE /\ pc' = "pdf_close"
            /\ UNCHANGED <<used_ocr, page_num>>
    /\ UNCHANGED <<file, fs, temp_path, response, doc, text_parts, total_words, pending,
                   extraction, history, trace, text, fields>>

\* lines 280-284: the page is rasterized and saved; pix.save may fail, leaving
\* nothing or a partial file, and the exception leaves through lines 316-317
PdfRasterize ==
    /\ pc = "pdf_rasterize"
    /\ \E n \in len_doc(doc, file.pages) : n # None /\ page_num < OcrPageLimit(n[1])
    /\ \/ /\ fs' = fs \cup {img_path(page_num)}
          /\ rasterized' = Append(rasterized, page_num)
          /\ pc' = "pdf_ocr"
          /\ UNCHANGED response
       \/ /\ fs' \in {fs, fs \cup {img_path(page_num)}}
          /\ response' = HTTPException(500, "PDF processing failed")
          /\ pc' = "finally"
          /\ UNCHANGED rasterized
    /\ UNCHANGED <<file, temp_path, pdf_locals, extraction, digital, ocr, trace, text, fields>>

\* lines 286-290: extract_text_from_image(img_path) gives a text or raises
PdfOcr ==
    /\ pc = "pdf_ocr"
    /\ \/ \E t \in OcrTexts :
            LET page_text == extract_text_from_image(t, <<>>, 0).text
            IN  /\ t # <<>> => Written([i \in 1..Len(ocr) |-> ocr[i].text]) < MaxWritten
                /\ ocr' = Append(ocr, [ok |-> TRUE, text |-> page_text])
                /\ IF HasText(page_text)
                   THEN /\ text_parts' = Append(text_parts, page_text)
                        /\ total_words' = total_words + WordCount(page_text)
                   ELSE UNCHANGED <<text_parts, total_words>>
                /\ pending' = FALSE
       \/ /\ ocr' = Append(ocr, [ok |-> FALSE, text |-> <<>>])
          /\ pending' = TRUE
          /\ UNCHANGED <<text_parts, total_words>>
    /\ pc' = "pdf_unlink"
    /\ UNCHANGED <<file, fs, temp_path, response, doc, page_num, used_ocr, extraction,
                   digital, rasterized, trace, text, fields>>

\* lines 291-294: the finally clause; an OCR failure then leaves through lines 316-317
PdfUnlink ==
    /\ pc = "pdf_unlink"
    /\ fs' = fs \ {img_path(page_num)}
    /\ IF pending
       THEN /\ response' = HTTPException(500, "PDF processing failed")
            /\ pc' = "finally"
            /\ UNCHANGED page_num
       ELSE /\ page_num' = page_num + 1
            /\ pc' = "pdf_rasterize"
            /\ UNCHANGED response
    /\ UNCHANGED <<file, temp_path, doc, text_parts, total_words, used_ocr, pending,
                   extraction, history, trace, text, fields>>

\* line 296: the OCR loop is over
PdfOcrDone ==
    /\ pc = "pdf_rasterize"
    /\ \E n \in len_doc(doc, file.pages) : n # None /\ page_num = OcrPageLimit(n[1])
    /\ pc' = "pdf_close"
    /\ UNCHANGED <<file, fs, temp_path, response, pdf_locals, extraction, history, trace,
                   text, fields>>

\* line 298
PdfClose ==
    /\ pc = "pdf_close"
    /\ doc' = "closed"
    /\ pc' = "pdf_return"
    /\ UNCHANGED <<file, fs, temp_path, response, page_num, text_parts, total_words,
                   used_ocr, pending, extraction, history, trace, text, fields>>

\* lines 300-317: the metadata is built, with len(doc) read on the closed document
PdfReturn ==
    /\ pc = "pdf_return"
    /\ \E n \in len_doc(doc, file.pages) :
         IF n = None
         THEN /\ response' = HTTPException(500, "PDF processing failed")
              /\ pc' = "finally"
              /\ UNCHANGED extraction
         ELSE LET full_text == Join(text_parts, PageSeparator)
              IN  /\ extraction' =
                        Some([ text       |-> full_text,
                               confidence |-> Confidence(used_ocr),
                               metadata   |-> PdfMetadata(full_text, n[1], total_words,
                                                          used_ocr, file.length) ])
                  /\ pc' = "respond"
                  /\ UNCHANGED response
    /\ UNCHANGED <<file, fs, temp_path, pdf_locals, history, trace, text, fields>>

\* lines 389-413
Respond ==
    /\ pc = "respond"
    /\ text' = extraction[1].text
    /\ fields' = Some(extract_structured_fields(extraction[1].text))
    /\ response' = OCRResponse(file, extraction[1], fields'[1])
    /\ pc' = "finally"
    /\ UNCHANGED <<file, fs, temp_path, pdf_locals, extraction, history, trace>>

\* lines 424-427
Finally ==
    /\ pc = "finally"
    /\ fs' = IF temp_path # None /\ temp_path[1] \in fs THEN fs \ {temp_path[1]} ELSE fs
    /\ pc' = "done"
    /\ UNCHANGED <<file, temp_path, response, pdf_locals, extraction, history, trace,
                   text, fields>>

Next ==
    \/ ValidateSize
    \/ ValidateType
    \/ CreateTemp
    \/ ReadPayload
    \/ Dispatch
    \/ ImageOcr
    \/ PdfOpen
    \/ PdfDigitalPage
    \/ PdfClassify
    \/ PdfRasterize
    \/ PdfOcr
    \/ PdfUnlink
    \/ PdfOcrDone
    \/ PdfClose
    \/ PdfReturn
    \/ Respond
    \/ Finally

Spec == Init /\ [][Next]_vars

(***************************************************************************)
(* extract_structured_fields on its own: the texts it is applied to are     *)
(* made of at most MaxLines of the lines below, joined by newlines.         *)
(***************************************************************************)
MaxLines == 3

FieldLines == <<
    \* "SUBTOTAL: $45.50"
        <<"S","U","B","T","O","T","A","L",":"," ","$","4","5",".","5","0">>,
    \* "TAX: $3.64"
        <<"T","A","X",":"," ","$","3",".","6","4">>,
    \* "TOTAL: $49.14"
        <<"T","O","T","A","L",":"," ","$","4","9",".","1","4">>,
    \* "INVOICE #INV-2024-001"
        <<"I","N","V","O","I","C","E"," ","#","I","N","V","-","2","0","2","4","-","0",
          "0","1">>,
    \* "Invoice Date: 01/15/2024"
        <<"I","n","v","o","i","c","e"," ","D","a","t","e",":"," ","0","1","/","1","5",
          "/","2","0","2","4">>,
    \* "Acme Corp"
        <<"A","c","m","e"," ","C","o","r","p">>
    >>

\* '\n'.join of the chosen lines
RECURSIVE TextOf(_)
TextOf(q) ==
    IF q = <<>> THEN <<>>
    ELSE IF Len(q) = 1 THEN FieldLines[q[1]]
    ELSE FieldLines[q[1]] \o <<"\n">> \o TextOf(Tail(q))

FieldTexts ==
    { TextOf(q) : q \in UNION { [1..n -> 1..Len(FieldLines)] : n \in 1..MaxLines } }

InitFields ==
    /\ pc = "fields"
    /\ text \in FieldTexts
    /\ fields = None
    /\ file = [size |-> 0, content_type |-> "", length |-> 0, pages |-> 0]
    /\ fs = {}
    /\ temp_path = None
    /\ response = Pending
    /\ doc = "none"
    /\ page_num = 0
    /\ text_parts = <<>>
    /\ total_words = 0
    /\ used_ocr = FALSE
    /\ pending = FALSE
    /\ extraction = None
    /\ digital = <<>>
    /\ ocr = <<>>
    /\ rasterized = <<>>
    /\ trace = {}

\* fields = extract_structured_fields(text)
ExtractFields ==
    /\ pc = "fields"
    /\ fields' = Some(extract_structured_fields(text))
    /\ pc' = "fields_done"
    /\ UNCHANGED <<file, fs, temp_path, response, pdf_locals, extraction, history, trace,
                   text>>

NextFields == ExtractFields

SpecFields == InitFields /\ [][NextFields]_vars

(***************************************************************************)
(* Concurrent requests: POST /ocr handled by separate worker processes on   *)
(* one host.  The workers share nothing but the temporary directory:        *)
(* NamedTemporaryFile (line 372) creates the upload there, and img_path     *)
(* (line 283) is pdf_path.parent / "temp_page_<n>.png", a name in that same  *)
(* directory.  Every variable a request owns is a function of the worker;   *)
(* fs maps each path of the directory to the request whose data the file    *)
(* holds, and trace collects the accesses <<operation, request, owner>>.    *)
(* Each request is a valid PDF upload without digital text, which is the    *)
(* case that writes page images.                                            *)
(***************************************************************************)
NumWorkers == 2

MaxWorkerPages == 2

Workers == 1..NumWorkers

\* the files of the temporary directory, after path p is written by request w
WriteFile(dir, p, w) == [q \in DOMAIN dir \cup {p} |-> IF q = p THEN w ELSE dir[q]]

\* img_path.unlink() / temp_path.unlink()
UnlinkFile(dir, p) == [q \in DOMAIN dir \ {p} |-> dir[q]]

\* the names NamedTemporaryFile can give: it never returns an existing file
FreshUploadPaths(dir) == {<<"tmp", k>> : k \in Workers} \ DOMAIN dir

InitWorkers ==
    /\ pc = [w \in Workers |-> "create_temp"]
    /\ file \in [Workers -> {u \in Uploads : /\ u.content_type = "application/pdf"
                                             /\ u.size = 0
                                             /\ u.length = MAX_FILE_SIZE
                                             /\ u.pages \in 1..MaxWorkerPages}]
    /\ fs = <<>>
    /\ temp_path = [w \in Workers |-> None]
    /\ response = [w \in Workers |-> Pending]
    /\ page_num = [w \in Workers |-> 0]
    /\ pending = [w \in Workers |-> FALSE]
    /\ ocr = [w \in Workers |-> <<>>]
    /\ trace = {}
    /\ doc = "none"
    /\ text_parts = <<>>
    /\ total_words = 0
    /\ used_ocr = TRUE
    /\ extraction = None
    /\ digital = <<>>
    /\ rasterized = <<>>
    /\ text = <<>>
    /\ fields = None

worker_constants == <<file, doc, text_parts, total_words, used_ocr, extraction, digital,
                      rasterized, text, fields>>

\* lines 369-381: the upload is stored under a name no file of the directory has
WorkerCreateTemp(w) ==
    /\ pc[w] = "create_temp"
    /\ \E p \in FreshUploadPaths(fs) :
         /\ fs' = WriteFile(fs, p, w)
         /\ temp_path' = [temp_path EXCEPT ![w] = Some(p)]
    /\ pc' = [pc EXCEPT ![w] = "pdf_open"]
    /\ UNCHANGED <<response, page_num, pending, ocr, trace, worker_constants>>

\* lines 259-279: fitz.open(pdf_path) reads the upload; no page has digital text
WorkerOpen(w) ==
    /\ pc[w] = "pdf_open"
    /\ trace' = trace \cup {<<"read", w, fs[temp_path[w][1]]>>}
    /\ page_num' = [page_num EXCEPT ![w] = 0]
    /\ pc' = [pc EXCEPT ![w] = "pdf_rasterize"]
    /\ UNCHANGED <<fs, temp_path, response, pending, ocr, worker_constants>>

\* lines 280-284: pix.save(img_path) creates the file or overwrites the one there
WorkerRasterize(w) ==
    /\ pc[w] = "pdf_rasterize"
    /\ page_num[w] < OcrPageLimit(file[w].pages)
    /\ LET p == img_path(page_num[w])
       IN  /\ trace' = IF p \in DOMAIN fs
                       THEN trace \cup {<<"overwrite", w, fs[p]>>} ELSE trace
           /\ fs' = WriteFile(fs, p, w)
    /\ pc' = [pc EXCEPT ![w] = "pdf_ocr"]
    /\ UNCHANGED <<temp_path, response, page_num, pending, ocr, worker_constants>>

\* lines 286-290: extract_text_from_image(img_path) reads the file that is at
\* img_path now; it raises when the file is gone or the engine fails (lines 243-244)
WorkerOcr(w) ==
    /\ pc[w] = "pdf_ocr"
    /\ LET p == img_path(page_num[w])
       IN  \/ /\ p \in DOMAIN fs
              /\ trace' = trace \cup {<<"read", w, fs[p]>>}
              /\ ocr' = [ocr EXCEPT ![w] = Append(@, fs[p])]
              /\ pending' = [pending EXCEPT ![w] = FALSE]
           \/ /\ ocr' = [ocr EXCEPT ![w] = Append(@, 0)]
              /\ pending' = [pending EXCEPT ![w] = TRUE]
              /\ UNCHANGED trace
    /\ pc' = [pc EXCEPT ![w] = "pdf_unlink"]
    /\ UNCHANGED <<fs, temp_path, response, page_num, worker_constants>>

\* lines 291-294: if img_path.exists(): img_path.unlink(); then the next page, or
\* the failure of the OCR pass leaves through lines 316-317
WorkerUnlink(w) ==
    /\ pc[w] = "pdf_unlink"
    /\ LET p == img_path(page_num[w])
       IN  IF p \in DOMAIN fs
           THEN /\ trace' = trace \cup {<<"delete", w, fs[p]>>}
                /\ fs' = UnlinkFile(fs, p)
           ELSE UNCHANGED <<fs, trace>>
    /\ IF pending[w]
       THEN /\ response' = [response EXCEPT ![w] = HTTPException(500, "PDF processing failed")]
            /\ pc' = [pc EXCEPT ![w] = "finally"]
            /\ UNCHANGED page_num
       ELSE /\ page_num' = [page_num EXCEPT ![w] = @ + 1]
            /\ pc' = [pc EXCEPT ![w] = "pdf_rasterize"]
            /\ UNCHANGED response
    /\ UNCHANGED <<temp_path, pending, ocr, worker_constants>>

\* lines 296-314 and 389-413: the OCR loop is over and the request is answered
WorkerOcrDone(w) ==
    /\ pc[w] = "pdf_rasterize"
    /\ page_num[w] = OcrPageLimit(file[w].pages)
    /\ response' = [response EXCEPT ![w] = [status |-> 200, detail |-> "", body |-> None]]
    /\ pc' = [pc EXCEPT ![w] = "finally"]
    /\ UNCHANGED <<fs, temp_path, page_num, pending, ocr, trace, worker_constants>>

\* lines 424-427
WorkerFinally(w) ==
    /\ pc[w] = "finally"
    /\ LET p == temp_path[w]
       IN  IF p # None /\ p[1] \in DOMAIN fs
           THEN /\ trace' = trace \cup {<<"delete", w, fs[p[1]]>>}
                /\ fs' = UnlinkFile(fs, p[1])
           ELSE UNCHANGED <<fs, trace>>
    /\ pc' = [pc EXCEPT ![w] = "done"]
    /\ UNCHANGED <<temp_path, response, page_num, pending, ocr, worker_constants>>

NextWorkers ==
    \E w \in Workers :
        \/ WorkerCreateTemp(w)
        \/ WorkerOpen(w)
        \/ WorkerRasterize(w)
        \/ WorkerOcr(w)
        \/ WorkerUnlink(w)
        \/ WorkerOcrDone(w)
        \/ WorkerFinally(w)

SpecWorkers == InitWorkers /\ [][NextWorkers]_vars

(***************************************************************************)
(* Properties.                                                              *)
(***************************************************************************)
IsPdf == file.content_type = "application/pdf"

Returned == extraction # None

\* a text with nothing but whitespace in it (the empty text included)
Blank(t) == \A i \in 1..Len(t) : t[i] \in {" ", "\n", "\t", "\f"}

NonEmptyTexts(h) == SelectSeq(h, LAMBDA t : t # <<>>)

NonBlankTexts(h) == SelectSeq(h, LAMBDA t : ~Blank(t))

OcrYield == [i \in 1..Len(ocr) |-> ocr[i].text]

FirstPages(n) == [i \in 1..n |-> i - 1]

DigitalResult(parts) ==
    /\ extraction[1].text = Join(parts, <<"\n", "\n">>)
    /\ extraction[1].confidence = <<10, 10>>
    /\ extraction[1].metadata.used_ocr = FALSE

\* C1 as stated: once a page of the PDF has yielded a non-empty digital text, no
\* page is ever rasterized or passed to OCR, and what extract_text_from_pdf returns
\* is the join of the non-empty page texts in page order, with confidence 1.0 and
\* used_ocr false.
C1_NonEmptyPageMakesDigital ==
    (IsPdf /\ \E i \in 1..Len(digital) : digital[i] # <<>>)
        => /\ rasterized = <<>>
           /\ ocr = <<>>
           /\ Returned => DigitalResult(NonEmptyTexts(digital))

\* C1 amended: the same with "non-empty" read as "holding a non-whitespace
\* character": once a page has yielded such a text no page is ever rasterized or
\* passed to OCR, and the returned text is the join of exactly those page texts in
\* page order, with confidence 1.0 and used_ocr false.
C1_NonBlankPageMakesDigital ==
    (IsPdf /\ \E i \in 1..Len(digital) : ~Blank(digital[i]))
        => /\ rasterized = <<>>
           /\ ocr = <<>>
           /\ Returned => DigitalResult(NonBlankTexts(digital))

\* C1 witness: a five page PDF of which only page 3 has digital text has been extracted
C1_Witness ==
    /\ IsPdf /\ Returned /\ Len(digital) = 5
    /\ \A i \in 1..5 : (digital[i] # <<>>) <=> (i = 3)
    /\ ~Blank(digital[3])

\* the OCR fallback proceeds page by page from page 0 and stays within the first
\* min(total_pages, 5) pages
OcrInOrder ==
    /\ Len(rasterized) <= Min(file.pages, 5)
    /\ rasterized = FirstPages(Len(rasterized))
    /\ Len(ocr) \in {Len(rasterized) - 1, Len(rasterized)} \cap Nat

OcrResult(parts) ==
    /\ rasterized = FirstPages(Min(file.pages, 5))
    /\ Len(ocr) = Len(rasterized)
    /\ extraction[1].text = Join(parts, <<"\n", "\n">>)
    /\ extraction[1].confidence = <<8, 10>>
    /\ extraction[1].metadata.used_ocr = TRUE

C3_TotalPagesIsPageCount ==
    (IsPdf /\ response.status = 200)
        => response.body[1].metadata.total_pages = Some(file.pages)

\* C3 witness: a PDF longer than five pages went through the OCR fallback, five
\* pages were rasterized, and the request was answered
C3_Witness ==
    /\ IsPdf /\ response.status = 200 /\ pc = "done"
    /\ file.pages > 5 /\ Len(rasterized) = 5

\* C4: once the handling of a request has ended, no temporary file of it exists.
C4_NoTemporaryFileLeft == pc = "done" => fs = {}

\* C5: a request rejected by validation (400 or 413) was rejected before any
\* temporary storage was created and before any engine was called.
C5_RejectedBeforeStorage ==
    (pc = "done" /\ response.status \in {400, 413}) => trace = {}

\* C6 as stated: an upload whose declared size or whose payload exceeds the maximum
\* is answered 413 whatever its other attributes.
C6_OversizeAlways413 ==
    (pc = "done" /\ (file.size > MAX_FILE_SIZE \/ file.length > MAX_FILE_SIZE))
        => response.status = 413

\* C6 amended: an upload whose declared size exceeds the maximum is answered 413
\* whatever its other attributes; an upload whose payload exceeds it is answered 413
\* provided its declared MIME type is in the allow-list.
C6_Oversize413IfTypeAllowed ==
    pc = "done"
        => /\ file.size > MAX_FILE_SIZE => response.status = 413
           /\ (file.length > MAX_FILE_SIZE /\ file.content_type \in ALLOWED_FILE_TYPES)
                 => response.status = 413

\* C6 witness: an oversize payload with an absent or wrong size hint was answered 413
\* by the check made after the read
C6_Witness ==
    /\ pc = "done" /\ response.status = 413
    /\ file.size <= MAX_FILE_SIZE /\ file.length > MAX_FILE_SIZE
    /\ "temp_file" \in trace

\* C7 as stated: an upload whose declared MIME type is not in the allow-list is
\* answered 400.
C7_BadTypeAlways400 ==
    (pc = "done" /\ file.content_type \notin ALLOWED_FILE_TYPES)
        => response.status = 400

\* C7 amended: an upload whose declared MIME type is not in the allow-list is
\* rejected, with 400 unless its declared size exceeds the maximum, in which case
\* the size check made first answers 413.
C7_BadType400UnlessDeclaredOversize ==
    (pc = "done" /\ file.content_type \notin ALLOWED_FILE_TYPES)
        => response.status = IF file.size > MAX_FILE_SIZE THEN 413 ELSE 400

\* C7 witness: a text/plain upload was answered 400
C7_Witness ==
    /\ pc = "done" /\ file.content_type = "text/plain" /\ response.status = 400

\* "SUBTOTAL: $45.50\nTAX: $3.64\nTOTAL: $49.14"
SubtotalTaxTotal ==
    FieldLines[1] \o <<"\n">> \o FieldLines[2] \o <<"\n">> \o FieldLines[3]

\* C8: for the text "SUBTOTAL: $45.50\nTAX: $3.64\nTOTAL: $49.14" the extracted
\* total is 49.14, the amount of the TOTAL line.
C8_TotalOutranksSubtotal ==
    (pc = "fields_done" /\ text = SubtotalTaxTotal) => fields[1].total = Some(4914)

\* C9: for the text "INVOICE #INV-2024-001" the invoice number is the whole token
\* "INV-2024-001".
C9_WholeInvoiceToken ==
    (pc = "fields_done" /\ text = FieldLines[4])
        => fields[1].invoice_number =
              Some(<<"I","N","V","-","2","0","2","4","-","0","0","1">>)

\* C10: every successful response carries a word_count, the number of
\* whitespace-separated tokens of its extracted_text.
C10_WordCountOfFinalText ==
    response.status = 200
        => response.body[1].metadata.word_count
               = Some(WordCount(response.body[1].extracted_text))

\* C11: concurrent requests share no temporary artifact: every file a request
\* reads, overwrites or deletes holds that request's own data, and the page texts
\* of an answered request all come from its own upload.
C11_NoForeignArtifact ==
    /\ \A e \in trace : e[2] = e[3]
    /\ \A w \in Workers :
         response[w].status = 200 => \A i \in 1..Len(ocr[w]) : ocr[w][i] = w

\* C12: in the OCR fallback a failed OCR pass on one page does not abort the
\* remaining pages: once the request is over, a document with a failed pass has
\* still had every one of its first min(total_pages, 5) pages rasterized and OCR'd.
C12_OcrFailureDoesNotAbort ==
    (pc = "done" /\ \E i \in 1..Len(ocr) : ~ocr[i].ok)
        => /\ rasterized = FirstPages(OcrPageLimit(file.pages))
           /\ Len(ocr) = OcrPageLimit(file.pages)

\* the rasterized page images present in the temporary directory
PageImages == {p \in fs : p[1] = "temp_page"}

\* C13: at every point at most one rasterized page image exists, and none exists
\* once extract_text_from_pdf has returned or raised, whether the OCR pass or the
\* writing of the image succeeded or failed.
C13_PageImageReleased ==
    /\ Cardinality(PageImages) <= 1
    /\ pc \in {"respond", "finally", "done"} => PageImages = {}

\* s occurs in t as a contiguous substring
Substring(s, t) ==
    \E i \in 0..(Len(t) - Len(s)) : SubSeq(t, i + 1, i + Len(s)) = s

\* C14: every date, invoice_number, vendor and title that extract_structured_fields
\* sets is a substring of the original text, in its original casing.
C14_OriginalCasingKept ==
    fields # None =>
        \A v \in {fields[1].date, fields[1].invoice_number, fields[1].vendor,
                  fields[1].title} :
            v # None => Substring(v[1], text)

\* a step that operates on the document: len(doc), load_page, get_text, get_pixmap
DocumentOperation ==
    PdfDigitalPage \/ PdfClassify \/ PdfRasterize \/ PdfOcrDone \/ PdfReturn

\* C15: every operation on the PDF document is issued while the document is open,
\* never after doc.close().
C15_NoUseAfterClose == [][DocumentOperation => doc = "open"]_vars

====
